---- MODULE Spec2Model ----
(***************************************************************************)
(* A model of boa_zksync: ZksyncEnv (environment.py), the zkSync           *)
(* deployment / call pipeline against a JSON-RPC endpoint.                 *)
(*                                                                         *)
(* The RPC endpoint is the environment of the model: each request is one   *)
(* step whose answer (a value, an RPCError, an HTTPError) is chosen        *)
(* nondeterministically.  Every request is appended to rpcLog.             *)
(*                                                                         *)
(* Representation of values:                                               *)
(*   bytes      a sequence over 0..255;                                    *)
(*   str        a sequence of one-character strings;                       *)
(*   bytecode   a record [len, seed]: a byte string of len bytes whose     *)
(*              content is identified by seed (lengths up to 32 * 2^16     *)
(*              bytes are needed, so the bytes are not spelled out);       *)
(*   Optional   None is the empty tuple, a present value v is <<v>>.       *)
(***************************************************************************)
EXTENDS Integers, Sequences, FiniteSets, TLC

VARIABLES
    accounts,      \* self._accounts: the addresses whose key the env holds
    last_receipt,  \* self.last_receipt
    pc,            \* position of the running call ("idle": none is running,
                   \* "done": it has ended and its result is with the caller)
    ctx,           \* arguments and locals of the running (or ended) call
    rpcLog,        \* the requests the running (or ended) call sent to self._rpc
    result,        \* how the call ended: a return value or a raised error
    _rpc,          \* self._rpc: the transport the env talks to
    _vm,           \* self._vm: the cached vm object, or None
    sha3_trace,    \* self.sha3_trace
    sstore_trace,  \* self.sstore_trace
    nodes,         \* how many EraTestNode objects have been constructed
    uncached,      \* the fetch_uncached requests made through a vm's state,
                   \* each with the transport it went to
    anchors,       \* the anchor() blocks that are open, innermost last: the
                   \* snapshot_id each one holds
    chain,         \* the endpoint's chain state: how many changes it has seen
    snapshots,     \* the endpoint's snapshots: the chain state each one saved
    _contracts,    \* self._contracts: canonical address -> contract object
    _code_registry \* self._code_registry: deployed code -> contract object

callVars == <<accounts, last_receipt, pc, ctx, rpcLog, result>>
envVars == <<_rpc, _vm, sha3_trace, sstore_trace, nodes, uncached, anchors, chain, snapshots, _contracts, _code_registry>>
vars == <<callVars, envVars>>

None == <<>>
Some(v) == <<v>>
Get(o) == o[1]

----------------------------------------------------------------------------
(* Bounds of the model *)

NumAddresses == 2
MaxSeed == 3

Addresses == 1..NumAddresses

----------------------------------------------------------------------------
(* Outcomes of a Python call: a value returned or an exception raised *)

Return(v) == [ok |-> TRUE, val |-> v]
Raise(e) == [ok |-> FALSE, exc |-> e]

\* exceptions: the class and the constructor's argument
AssertionError(msg) == [type |-> "AssertionError", arg |-> msg]
ValueError(msg) == [type |-> "ValueError", arg |-> msg]
VMError(msg) == [type |-> "VMError", arg |-> msg]
RPCError(msg) == [type |-> "RPCError", arg |-> msg]
HTTPError(msg) == [type |-> "HTTPError", arg |-> msg]
_EstimateGasFailed(e) == [type |-> "_EstimateGasFailed", arg |-> e]

ZERO_ADDRESS == 0
_CONTRACT_DEPLOYER_ADDRESS == 32774

----------------------------------------------------------------------------
(* str and bytes helpers (Python built-ins used by environment.py) *)

HexChars == <<"0","1","2","3","4","5","6","7","8","9","a","b","c","d","e","f">>

IsHexChar(c) == \E i \in 1..16 : HexChars[i] = c
HexVal(c) == (CHOOSE i \in 1..16 : HexChars[i] = c) - 1

\* str.removeprefix(prefix)
removeprefix(s, prefix) ==
    IF Len(s) >= Len(prefix) /\ SubSeq(s, 1, Len(prefix)) = prefix
    THEN SubSeq(s, Len(prefix) + 1, Len(s))
    ELSE s

\* bytes.fromhex(s): two hex digits per byte, ValueError otherwise
fromhex(s) ==
    IF Len(s) % 2 # 0 \/ \E i \in 1..Len(s) : ~IsHexChar(s[i])
    THEN Raise(ValueError("non-hexadecimal number found in fromhex()"))
    ELSE Return([i \in 1..(Len(s) \div 2) |->
                    16 * HexVal(s[2 * i - 1]) + HexVal(s[2 * i])])

RECURSIVE HexDigitsValue(_)
HexDigitsValue(s) ==
    IF s = <<>> THEN 0
    ELSE 16 * HexDigitsValue(SubSeq(s, 1, Len(s) - 1)) + HexVal(s[Len(s)])

\* int(s, 16): an optional "0x" prefix, then hex digits
int16(s) == HexDigitsValue(removeprefix(s, <<"0", "x">>))

\* n.to_bytes(length, byteorder="big")
to_bytes(n, length) ==
    [i \in 1..length |-> (n \div (256 ^ (length - i))) % 256]

----------------------------------------------------------------------------
(* _hash_code *)

\* hashlib.sha256(bytecode).digest(): a reference function giving 32 bytes
\* that depend on the whole bytecode (its content and its length).
sha256(bytecode) ==
    [i \in 1..32 |-> (bytecode.seed * 37 + bytecode.len * 11 + i * 7 + 5) % 256]

\* a slip in the slice: the digest's first 28 bytes instead of its last 28
_hash_code_head(bytecode) ==
    LET bytecode_len == bytecode.len
        bytecode_size == bytecode_len \div 32
        bytecode_hash == sha256(bytecode)
    IN  IF bytecode_len % 32 # 0
        THEN Raise(AssertionError("Bytecode length must be a multiple of 32 bytes"))
        ELSE IF ~(bytecode_size < 2 ^ 16)
        THEN Raise(AssertionError("Bytecode length must be less than 2^16"))
        ELSE Return(<<1, 0>> \o to_bytes(bytecode_size, 2)
                        \o SubSeq(bytecode_hash, 1, 28))

_hash_code(bytecode) ==
    LET bytecode_len == bytecode.len
        bytecode_size == bytecode_len \div 32
        bytecode_hash == sha256(bytecode)
    IN  IF bytecode_len % 32 # 0
        THEN Raise(AssertionError("Bytecode length must be a multiple of 32 bytes"))
        ELSE IF ~(bytecode_size < 2 ^ 16)
        THEN Raise(AssertionError("Bytecode length must be less than 2^16"))
        ELSE Return(<<1, 0>> \o to_bytes(bytecode_size, 2)
                        \o SubSeq(bytecode_hash, 5, 32))

----------------------------------------------------------------------------
(* boa_zksync.types: ZksyncMessage, ZksyncComputation, DeployTransaction *)

\* ZksyncMessage(sender, to, gas, value, data)
ZksyncMessage(sender, to, gas, value, data) ==
    [sender |-> sender, to |-> to, gas |-> gas, value |-> value, data |-> data]

\* ZksyncComputation(msg, output=None, error=None)
ZksyncComputation(msg, output, error) ==
    [msg |-> msg, output |-> output, error |-> error]

\* ZksyncComputation.is_error
is_error(computation) == computation.error # None

\* what a tracer answers for a call: the traced call, its output as hex, and
\* an error text when the call failed
TraceDict(msg, output, error) == [msg |-> msg, output |-> output, error |-> error]

\* ZksyncComputation.from_call_trace / from_debug_trace: decode a tracer's answer
from_trace(trace) ==
    LET output == fromhex(removeprefix(trace.output, <<"0", "x">>))
    IN  IF ~output.ok THEN output
        ELSE Return(ZksyncComputation(
                 trace.msg,
                 Some(output.val),
                 IF trace.error = None THEN None ELSE Some(VMError(Get(trace.error)))))

from_call_trace(trace_call) == from_trace(trace_call)
from_debug_trace(raw_trace) == from_trace(raw_trace)

\* create.prepare_calldata(salt, bytecode_hash, constructor_calldata): the
\* selector of create(bytes32,bytes32,bytes), then the encoded arguments
prepare_calldata(salt, bytecode_hash, constructor_calldata) ==
    <<156, 77, 83, 91>> \o salt \o bytecode_hash \o constructor_calldata

\* DeployTransaction.get_estimate_msg
get_estimate_msg(tx) ==
    ZksyncMessage(tx.sender, tx.to, tx.gas, tx.value, tx.calldata)

\* DeployTransaction.sign_typed_data(account, estimated_gas)
sign_typed_data(tx, account, estimated_gas) ==
    [signer |-> account, nonce |-> tx.nonce, gas_limit |-> estimated_gas]

\* DeployTransaction.rlp_encode(signature, estimated_gas)
rlp_encode(tx, signature, estimated_gas) ==
    [tx |-> tx, signature |-> signature, gas_limit |-> estimated_gas]

----------------------------------------------------------------------------
(* Python iterables: a tuple or list can be iterated again and again, an  *)
(* iterator (a generator) yields each item once.                           *)

Iterable(kind, items) == [kind |-> kind, items |-> items]

\* the items one pass over the iterable yields
Yielded(it) == it.items

\* the iterable after that pass
Exhausted(it) == IF it.kind = "iterator" THEN [it EXCEPT !.items = <<>>] ELSE it

\* [_hash_code(bc) for bc in items]: the first failing item raises
HashEach(items) ==
    IF \E i \in 1..Len(items) : ~_hash_code(items[i]).ok
    THEN _hash_code(items[CHOOSE i \in 1..Len(items) :
                              /\ ~_hash_code(items[i]).ok
                              /\ \A j \in 1..(i - 1) : _hash_code(items[j]).ok])
    ELSE Return([i \in 1..Len(items) |-> _hash_code(items[i]).val])

\* gas or 0
OrZero(gas) == IF gas = None \/ gas = Some(0) THEN 0 ELSE Get(gas)

\* deploy_code, lines 187-205: the transaction assembled from the arguments
\* and the quote; the keyword arguments are evaluated in the order written
AssembleDeployTransaction(sender, gas, bytecode, dependency_bytecodes, nonce, chain_id, gas_price) ==
    LET bytecode_hash == _hash_code(bytecode)
        dep_list == Yielded(dependency_bytecodes)
        dep_hashes == HashEach(Yielded(Exhausted(dependency_bytecodes)))
    IN  IF ~bytecode_hash.ok THEN bytecode_hash
        ELSE IF ~dep_hashes.ok THEN dep_hashes
        ELSE Return([sender |-> sender,
                     to |-> _CONTRACT_DEPLOYER_ADDRESS,
                     gas |-> OrZero(gas),
                     gas_price |-> gas_price,
                     max_priority_fee_per_gas |-> gas_price,
                     nonce |-> nonce,
                     value |-> 0,
                     calldata |-> prepare_calldata([i \in 1..32 |-> 0], bytecode_hash.val, <<>>),
                     bytecode |-> bytecode,
                     bytecode_hash |-> bytecode_hash.val,
                     dependency_bytecodes |-> dep_list,
                     dependency_bytecode_hashes |-> dep_hashes.val,
                     chain_id |-> chain_id,
                     paymaster_params |-> None])

----------------------------------------------------------------------------
(* The arguments the calls are made with and the answers of the endpoint *)

Bytecode(len, seed) == [len |-> len, seed |-> seed]

\* bytecode arguments: empty (the default), one word, two words, a length
\* that is no multiple of 32, and 2^16 words
DeployBytecodes ==
    {Bytecode(0, 0), Bytecode(32, 1), Bytecode(64, 2), Bytecode(33, 1),
     Bytecode(32 * (2 ^ 16), 1)}

DependencyItems ==
    {<<>>, <<Bytecode(32, 1)>>, <<Bytecode(64, 2), Bytecode(32, 1)>>,
     <<Bytecode(32, 1), Bytecode(31, 0)>>}

DependencyArguments ==
    {Iterable(kind, items) : kind \in {"tuple", "iterator"}, items \in DependencyItems}

GasArguments == {None, Some(100000)}
DataArguments == {<<>>, <<169, 5, 156, 187>>}
ContractAddresses == {100, 101}
TxHashes == {"0xaa", "0xbb"}

\* answers to fetch_multi: nonce, chain id, gas price, as hex quantities
QuoteAnswers ==
    {<< <<"0","x","0">>, <<"0","x","1","0","4">>, <<"0","x","f","a">> >>,
     << <<"0","x","7">>, <<"0","x","1","2","c">>, <<"0","x","1">> >>}

EstimateAnswers == {<<"0","x","5","2","0","8">>, <<"0","x","f","f","f","f","f">>}

\* answers to eth_call: the returned data as a hex string
CallAnswers == {<<"0","x">>, <<"0","x","0","1">>, <<"0","x","a","b","0","0">>}

TraceCallAnswers(msg) ==
    {TraceDict(msg, <<"0","x","0","1">>, None),
     TraceDict(msg, <<"0","x">>, Some("execution reverted"))}

DebugTraceAnswers(msg) ==
    {TraceDict(msg, <<"0","x","0","2">>, None),
     TraceDict(msg, <<"0","x">>, Some("reverted in transaction"))}

RpcErrors == {RPCError("execution reverted"), RPCError("internal error")}
HttpErrors == {HTTPError("502 Bad Gateway")}
RpcFailures == RpcErrors \cup HttpErrors

\* what wait_for_tx_receipt raises when poll_timeout expires
ReceiptTimeout == [type |-> "TimeoutError", arg |-> "Timed out waiting for receipt"]

----------------------------------------------------------------------------
(* State of a call *)

\* one exchange with the endpoint: the request and what came back
Exchange(method, arg, answer) == [method |-> method, arg |-> arg, answer |-> answer]

Answers(values, errors) == {Return(v) : v \in values} \cup {Raise(e) : e \in errors}

\* how a call ended; site is the line of the return or raise that ended it
Returned(v, site) == [kind |-> "return", value |-> v, site |-> site]
Raised(e, site) == [kind |-> "raise", value |-> e, site |-> site]
NoResult == [kind |-> "none", value |-> None, site |-> 0]

NoFrame ==
    [op |-> "none", sender |-> None, gas |-> None, bytecode |-> None,
     dependency_bytecodes |-> None, to |-> None, data |-> None,
     is_modifying |-> FALSE, args |-> None, tx |-> None,
     estimate_error |-> None, estimated_gas |-> None, raw_tx |-> None,
     tx_hash |-> None, computation |-> None, trace |-> None]

\* An RPC transport.  EthereumRPC(url) talks to the endpoint at url; an
\* EraTestNode is a local node process forked from inner_rpc, and each one
\* constructed is a different object (id).
EthereumRPC(url) ==
    [class |-> "EthereumRPC", url |-> url, inner_rpc |-> None,
     block_identifier |-> "", id |-> 0]

EraTestNode(inner_rpc, block_identifier, id) ==
    [class |-> "EraTestNode", url |-> "http://localhost:8011",
     inner_rpc |-> Some(inner_rpc), block_identifier |-> block_identifier,
     id |-> id]

\* lines 36-41, and what Env.__init__ and NetworkEnv.__init__ set: the env
\* talks to the endpoint it was constructed with, nothing is cached, forked,
\* anchored or registered
InitEnv ==
    /\ _rpc = EthereumRPC("https://sepolia.era.zksync.dev")
    /\ _vm = None
    /\ sha3_trace = {}
    /\ sstore_trace = {}
    /\ nodes = 0
    /\ uncached = <<>>
    /\ anchors = <<>>
    /\ chain = 0
    /\ snapshots = <<>>
    /\ _contracts = {}
    /\ _code_registry = {}

Init ==
    /\ accounts = {}
    /\ last_receipt = None
    /\ pc = "idle"
    /\ ctx = NoFrame
    /\ rpcLog = <<>>
    /\ result = NoResult
    /\ InitEnv

\* the call goes on at position p with frame f; it has no result yet
Goto(p, f) == pc' = p /\ ctx' = f /\ result' = NoResult

\* the call ends with result r
End(f, r) == pc' = "done" /\ ctx' = f /\ result' = r

\* the caller has the result and is free to make its next call
Resume ==
    /\ pc = "done"
    /\ pc' = "idle"
    /\ ctx' = NoFrame
    /\ rpcLog' = <<>>
    /\ result' = NoResult
    /\ UNCHANGED <<accounts, last_receipt>>
    /\ UNCHANGED envVars

----------------------------------------------------------------------------
(* generate_address, lines 235-236: a new account joins self._accounts *)

generate_address(address) ==
    /\ pc = "idle"
    /\ address \notin accounts
    /\ accounts' = accounts \cup {address}
    /\ UNCHANGED <<last_receipt, pc, ctx, rpcLog, result>>
    /\ UNCHANGED envVars

----------------------------------------------------------------------------
(* deploy_code *)

IsKnownAccount_any(sender) == TRUE

\* line 170: the sender is one of self._accounts
IsKnownAccount(sender) == sender \in accounts

\* lines 171-176: the error for a sender that is not
UnknownSenderError(sender) ==
    ValueError([account |-> sender,
                text |-> "is not available.",
                tip |-> IF accounts # {}
                        THEN [text |-> "Known accounts:", known |-> accounts]
                        ELSE [text |-> "Did you forget to call add_account?",
                              known |-> {}]])

\* lines 169-176.  sender is the address _check_sender(_get_sender(sender))
\* gives.
deploy_code(sender, gas, bytecode, dependency_bytecodes) ==
    /\ pc = "idle"
    /\ LET frame == [NoFrame EXCEPT !.op = "deploy_code",
                                    !.sender = Some(sender),
                                    !.gas = gas,
                                    !.bytecode = Some(bytecode),
                                    !.dependency_bytecodes = Some(dependency_bytecodes)]
       IN  IF ~IsKnownAccount(sender)
           THEN End(frame, Raised(UnknownSenderError(sender), 176))
           ELSE Goto("fetch_multi", frame)
    /\ UNCHANGED <<accounts, last_receipt, rpcLog>>
    /\ UNCHANGED envVars

\* lines 178-205: the batched quote, then the transaction is assembled
FetchMulti ==
    /\ pc = "fetch_multi"
    /\ \E answer \in Answers(QuoteAnswers, RpcFailures) :
         /\ rpcLog' = Append(rpcLog,
                        Exchange("fetch_multi",
                                 <<"eth_getTransactionCount", Get(ctx.sender),
                                   "eth_chainId", "eth_gasPrice">>,
                                 answer))
         /\ IF ~answer.ok
            THEN End(ctx, Raised(answer.exc, 178))
            ELSE LET rpc_data == answer.val
                     nonce == int16(rpc_data[1])
                     chain_id == int16(rpc_data[2])
                     gas_price == int16(rpc_data[3])
                     tx == AssembleDeployTransaction(
                               Get(ctx.sender), ctx.gas, Get(ctx.bytecode),
                               Get(ctx.dependency_bytecodes),
                               nonce, chain_id, gas_price)
                 IN  IF tx.ok
                     THEN Goto("eth_estimateGas", [ctx EXCEPT !.tx = Some(tx.val)])
                     ELSE End(ctx, Raised(tx.exc,
                                          IF _hash_code(Get(ctx.bytecode)).ok
                                          THEN 202 ELSE 187))
    /\ UNCHANGED <<accounts, last_receipt>>
    /\ UNCHANGED envVars

EstimateFallbackResult_generic(compute, e) == Raised(_EstimateGasFailed(e), 261)

\* _estimate_gas, lines 258-261: the estimate was rejected with e and
\* _compute gave compute for the estimate message
EstimateFallbackResult(compute, e) ==
    IF is_error(compute)
    THEN Raised(Get(compute.error), 260)
    ELSE Raised(_EstimateGasFailed(e), 261)

EstimateGas_unchecked ==
    /\ pc = "eth_estimateGas"
    /\ LET tx == Get(ctx.tx)
           estimate_msg == get_estimate_msg(tx)
       IN  \E answer \in Answers(EstimateAnswers, RpcFailures) :
             /\ rpcLog' = Append(rpcLog,
                            Exchange("eth_estimateGas", estimate_msg, answer))
             /\ LET estimated_gas == IF answer.ok THEN int16(answer.val) ELSE 0
                     signature == sign_typed_data(tx, Get(ctx.sender),
                                                  estimated_gas)
                     raw_tx == rlp_encode(tx, signature, estimated_gas)
                 IN  Goto("eth_sendRawTransaction",
                          [ctx EXCEPT !.estimated_gas = Some(estimated_gas),
                                      !.raw_tx = Some(raw_tx)])
    /\ UNCHANGED <<accounts, last_receipt>>
    /\ UNCHANGED envVars

\* _estimate_gas, lines 251-257, and on its return lines 208-209
EstimateGas ==
    /\ pc = "eth_estimateGas"
    /\ LET tx == Get(ctx.tx)
           estimate_msg == get_estimate_msg(tx)
       IN  \E answer \in Answers(EstimateAnswers, RpcFailures) :
             /\ rpcLog' = Append(rpcLog,
                            Exchange("eth_estimateGas", estimate_msg, answer))
             /\ IF answer.ok
                THEN LET estimated_gas == int16(answer.val)
                         signature == sign_typed_data(tx, Get(ctx.sender),
                                                      estimated_gas)
                         raw_tx == rlp_encode(tx, signature, estimated_gas)
                     IN  Goto("eth_sendRawTransaction",
                              [ctx EXCEPT !.estimated_gas = Some(estimated_gas),
                                          !.raw_tx = Some(raw_tx)])
                ELSE IF answer.exc.type = "RPCError"
                THEN Goto("debug_traceCall",
                          [ctx EXCEPT !.estimate_error = Some(answer.exc),
                                      !.args = Some(get_estimate_msg(tx))])
                ELSE End(ctx, Raised(answer.exc, 253))
    /\ UNCHANGED <<accounts, last_receipt>>
    /\ UNCHANGED envVars

\* line 211
SendRawTransaction ==
    /\ pc = "eth_sendRawTransaction"
    /\ \E answer \in Answers(TxHashes, RpcFailures) :
         /\ rpcLog' = Append(rpcLog,
                        Exchange("eth_sendRawTransaction", Get(ctx.raw_tx), answer))
         /\ IF answer.ok
            THEN Goto("wait_for_tx_receipt", [ctx EXCEPT !.tx_hash = Some(answer.val)])
            ELSE End(ctx, Raised(answer.exc, 211))
    /\ UNCHANGED <<accounts, last_receipt>>
    /\ UNCHANGED envVars

DeployReturn_hash(receipt, bytecode) ==
    <<Get(receipt.contractAddress), _hash_code(bytecode).val>>

\* line 217: what deploy_code returns for a receipt
DeployReturn(receipt, bytecode) == <<Get(receipt.contractAddress), bytecode>>

ReceiptEffect_lenient(answer, bytecode, receipt_before) ==
    IF answer.ok
    THEN [last_receipt |-> Some(answer.val),
          result |-> Returned(DeployReturn(answer.val, bytecode), 217)]
    ELSE [last_receipt |-> Some([transactionHash |-> "pending",
                                 contractAddress |-> None]),
          result |-> Raised(answer.exc, 213)]

\* lines 213-217: what the answer of wait_for_tx_receipt does to
\* self.last_receipt and how deploy_code ends
ReceiptEffect(answer, bytecode, receipt_before) ==
    IF answer.ok
    THEN [last_receipt |-> Some(answer.val),
          result |-> Returned(DeployReturn(answer.val, bytecode), 217)]
    ELSE [last_receipt |-> receipt_before,
          result |-> Raised(answer.exc, 213)]

\* the receipts the endpoint may give for tx_hash
DeployReceipts(tx_hash) ==
    {[transactionHash |-> tx_hash, contractAddress |-> Some(address)] :
        address \in ContractAddresses}

\* lines 213-217
WaitForTxReceipt ==
    /\ pc = "wait_for_tx_receipt"
    /\ \E answer \in Answers(DeployReceipts(Get(ctx.tx_hash)), {ReceiptTimeout}) :
         LET effect == ReceiptEffect(answer, Get(ctx.bytecode), last_receipt)
         IN  /\ rpcLog' = Append(rpcLog,
                            Exchange("wait_for_tx_receipt", Get(ctx.tx_hash), answer))
             /\ last_receipt' = effect.last_receipt
             /\ End(ctx, effect.result)
    /\ UNCHANGED accounts
    /\ UNCHANGED envVars

----------------------------------------------------------------------------
(* execute_code and _compute *)

\* lines 126-129.  sender is the address _check_sender(_get_sender(sender))
\* gives.
execute_code(to_address, sender, gas, data, is_modifying) ==
    /\ pc = "idle"
    /\ LET args == ZksyncMessage(sender, to_address, OrZero(gas), 0, data)
       IN  Goto("debug_traceCall",
                [NoFrame EXCEPT !.op = "execute_code",
                                !.sender = Some(sender),
                                !.gas = gas,
                                !.to = Some(to_address),
                                !.data = Some(data),
                                !.is_modifying = is_modifying,
                                !.args = Some(args)])
    /\ UNCHANGED <<accounts, last_receipt, rpcLog>>
    /\ UNCHANGED envVars

Submits_always(is_modifying) == TRUE

\* line 130: whether the call goes on to _send_txn
Submits(is_modifying) == is_modifying

\* _compute has returned or raised, to execute_code (line 129) or to
\* _estimate_gas (line 258); neither catches what it raises
ComputeDone(outcome, site) ==
    IF ~outcome.ok
    THEN End(ctx, Raised(outcome.exc, site))
    ELSE LET computation == outcome.val
             frame == [ctx EXCEPT !.computation = Some(computation)]
         IN  IF ctx.op = "execute_code"
             THEN IF Submits(ctx.is_modifying)
                  THEN Goto("_send_txn", frame)
                  ELSE End(frame, Returned(computation, 144))
             ELSE End(frame, EstimateFallbackResult(computation,
                                                    Get(ctx.estimate_error)))

\* _compute, lines 264-270
DebugTraceCall ==
    /\ pc = "debug_traceCall"
    /\ LET args == Get(ctx.args)
       IN  \E answer \in Answers(TraceCallAnswers(args), RpcFailures) :
             /\ rpcLog' = Append(rpcLog,
                            Exchange("debug_traceCall", <<args, "latest">>, answer))
             /\ IF answer.ok
                THEN ComputeDone(from_call_trace(answer.val), 269)
                ELSE Goto("eth_call", ctx)
    /\ UNCHANGED <<accounts, last_receipt>>
    /\ UNCHANGED envVars

CallComputation_raw(args, output) ==
    LET data == fromhex(output)
    IN  IF data.ok
        THEN Return(ZksyncComputation(args, Some(data.val), None))
        ELSE data

\* _compute, line 272: the computation made of eth_call's answer
CallComputation(args, output) ==
    LET data == fromhex(removeprefix(output, <<"0", "x">>))
    IN  IF data.ok
        THEN Return(ZksyncComputation(args, Some(data.val), None))
        ELSE data

EthCall_tolerant ==
    /\ pc = "eth_call"
    /\ LET args == Get(ctx.args)
       IN  \E answer \in Answers(CallAnswers, RpcFailures) :
             /\ rpcLog' = Append(rpcLog,
                            Exchange("eth_call", <<args, "latest">>, answer))
             /\ IF answer.ok
                THEN ComputeDone(CallComputation(args, answer.val), 272)
                ELSE IF ctx.op = "execute_code" /\ Submits(ctx.is_modifying)
                THEN Goto("_send_txn", ctx)
                ELSE End(ctx, Raised(answer.exc, 271))
    /\ UNCHANGED <<accounts, last_receipt>>
    /\ UNCHANGED envVars

EthCall_wrapped ==
    /\ pc = "eth_call"
    /\ LET args == Get(ctx.args)
       IN  \E answer \in Answers(CallAnswers, RpcFailures) :
             /\ rpcLog' = Append(rpcLog,
                            Exchange("eth_call", <<args, "latest">>, answer))
             /\ IF answer.ok
                THEN ComputeDone(CallComputation(args, answer.val), 272)
                ELSE IF ctx.op = "execute_code"
                THEN End(ctx, Raised(answer.exc, 271))
                ELSE End(ctx, Raised(_EstimateGasFailed(Get(ctx.estimate_error)),
                                     261))
    /\ UNCHANGED <<accounts, last_receipt>>
    /\ UNCHANGED envVars

\* _compute, lines 271-272
EthCall ==
    /\ pc = "eth_call"
    /\ LET args == Get(ctx.args)
       IN  \E answer \in Answers(CallAnswers, RpcFailures) :
             /\ rpcLog' = Append(rpcLog,
                            Exchange("eth_call", <<args, "latest">>, answer))
             /\ IF answer.ok
                THEN ComputeDone(CallComputation(args, answer.val), 272)
                ELSE End(ctx, Raised(answer.exc, 271))
    /\ UNCHANGED <<accounts, last_receipt>>
    /\ UNCHANGED envVars

\* trace.is_error of the trace object _send_txn returns
trace_is_error(trace) == trace.raw_trace.error # None

SubmissionResult_unchecked(computation, trace) ==
    IF trace # None
    THEN LET decoded == from_debug_trace(Get(trace).raw_trace)
         IN  IF decoded.ok
             THEN Returned(decoded.val, 138)
             ELSE Raised(decoded.exc, 138)
    ELSE Returned(computation, 144)

SubmissionResult_baseline(computation, trace) ==
    IF trace # None
    THEN IF is_error(computation) = trace_is_error(Get(trace))
         THEN Returned(computation, 138)
         ELSE Raised(AssertionError("VMError mismatch"), 135)
    ELSE Returned(computation, 144)

\* lines 134-138 and 144: _send_txn returned (receipt, trace)
SubmissionResult(computation, trace) ==
    IF trace # None
    THEN IF is_error(computation) = trace_is_error(Get(trace))
         THEN LET decoded == from_debug_trace(Get(trace).raw_trace)
              IN  IF decoded.ok
                  THEN Returned(decoded.val, 138)
                  ELSE Raised(decoded.exc, 138)
         ELSE Raised(AssertionError("VMError mismatch"), 135)
    ELSE Returned(computation, 144)

EstimateFailedResult_baseline(args, computation) ==
    Returned(computation, 144)

\* lines 140-144: _send_txn raised _EstimateGasFailed
EstimateFailedResult(args, computation) ==
    IF ~is_error(computation)
    THEN Returned(ZksyncComputation(args, None, Some(VMError("Estimate gas failed"))),
                  142)
    ELSE Returned(computation, 144)

\* what NetworkEnv._send_txn may return: a receipt, and a trace or None
SendTxnReturns(args) ==
    {<<[transactionHash |-> tx_hash, contractAddress |-> None], trace>> :
        tx_hash \in TxHashes,
        trace \in {None} \cup {Some([raw_trace |-> t]) : t \in DebugTraceAnswers(args)}}

SendTxn_late ==
    /\ pc = "_send_txn"
    /\ LET args == Get(ctx.args)
           computation == Get(ctx.computation)
       IN  \E answer \in Answers(SendTxnReturns(args),
                                 {_EstimateGasFailed("")} \cup RpcFailures
                                    \cup {ReceiptTimeout}) :
             /\ rpcLog' = Append(rpcLog, Exchange("_send_txn", args, answer))
             /\ IF answer.ok
                THEN LET receipt == answer.val[1]
                         trace == answer.val[2]
                         outcome == SubmissionResult(computation, trace)
                     IN  /\ last_receipt' = IF outcome.kind = "return"
                                            THEN Some(receipt)
                                            ELSE last_receipt
                         /\ End([ctx EXCEPT !.trace = trace], outcome)
                ELSE /\ UNCHANGED last_receipt
                     /\ IF answer.exc.type = "_EstimateGasFailed"
                        THEN End(ctx, EstimateFailedResult(args, computation))
                        ELSE End(ctx, Raised(answer.exc, 132))
    /\ UNCHANGED accounts
    /\ UNCHANGED envVars

\* lines 131-144.  _send_txn is NetworkEnv's: it estimates, signs, submits and
\* waits for the receipt; the call is logged as one exchange.
SendTxn ==
    /\ pc = "_send_txn"
    /\ LET args == Get(ctx.args)
           computation == Get(ctx.computation)
       IN  \E answer \in Answers(SendTxnReturns(args),
                                 {_EstimateGasFailed("")} \cup RpcFailures
                                    \cup {ReceiptTimeout}) :
             /\ rpcLog' = Append(rpcLog, Exchange("_send_txn", args, answer))
             /\ IF answer.ok
                THEN LET receipt == answer.val[1]
                         trace == answer.val[2]
                     IN  /\ last_receipt' = Some(receipt)
                         /\ End([ctx EXCEPT !.trace = trace],
                                SubmissionResult(computation, trace))
                ELSE /\ UNCHANGED last_receipt
                     /\ IF answer.exc.type = "_EstimateGasFailed"
                        THEN End(ctx, EstimateFailedResult(args, computation))
                        ELSE End(ctx, Raised(answer.exc, 132))
    /\ UNCHANGED accounts
    /\ UNCHANGED envVars

----------------------------------------------------------------------------
(* The environment: calls one after the other, each run to its end *)

Next ==
    \/ \E address \in Addresses : generate_address(address)
    \/ \E sender \in Addresses, gas \in GasArguments,
          bytecode \in DeployBytecodes,
          dependency_bytecodes \in DependencyArguments :
            deploy_code(sender, gas, bytecode, dependency_bytecodes)
    \/ FetchMulti
    \/ EstimateGas
    \/ SendRawTransaction
    \/ WaitForTxReceipt
    \/ \E to_address \in ContractAddresses, sender \in Addresses,
          gas \in GasArguments, data \in DataArguments, is_modifying \in BOOLEAN :
            execute_code(to_address, sender, gas, data, is_modifying)
    \/ DebugTraceCall
    \/ EthCall
    \/ SendTxn
    \/ Resume

Spec == Init /\ [][Next]_vars

----------------------------------------------------------------------------
(* _hash_code on its own: every input of HashInputs is hashed *)

HashLengths ==
    {0, 1, 31, 32, 33, 64, 96, 32 * 255, 32 * 256, 32 * 257, 32 * 65535,
     32 * 65535 + 31, 32 * 65536, 32 * 65537}

HashInputs == {Bytecode(len, seed) : len \in HashLengths, seed \in 0..MaxSeed}

HashInit ==
    /\ accounts = {}
    /\ last_receipt = None
    /\ pc = "_hash_code"
    /\ \E bytecode \in HashInputs :
         ctx = [NoFrame EXCEPT !.op = "_hash_code", !.bytecode = Some(bytecode)]
    /\ rpcLog = <<>>
    /\ result = NoResult
    /\ InitEnv

HashCode ==
    /\ pc = "_hash_code"
    /\ LET outcome == _hash_code(Get(ctx.bytecode))
       IN  End(ctx, IF outcome.ok
                    THEN Returned(outcome.val, 285)
                    ELSE Raised(outcome.exc,
                                IF Get(ctx.bytecode).len % 32 # 0 THEN 282 ELSE 283))
    /\ UNCHANGED <<accounts, last_receipt, rpcLog>>
    /\ UNCHANGED envVars

HashNext == HashCode

SpecHash == HashInit /\ [][HashNext]_vars

----------------------------------------------------------------------------
(* The cached vm and forking: vm, _reset_fork, fork, fork_rpc, _RPCState   *)

MaxForks == 2
MaxFetches == 2

ForkUrls == {None, Some("https://mainnet.era.zksync.io")}
ForkRpcs == {EthereumRPC("https://mainnet.era.zksync.io"),
             EthereumRPC("https://sepolia.era.zksync.dev")}
BlockIdentifiers == {"safe", "latest"}
BlockTimestamps == {<<"0","x","f","f">>}
TimestampValues == {256}

\* _RPCState.__init__, line 318
_RPCState(rpc) == [rpc |-> rpc]

\* MagicMock(state=...), line 55: an object whose state attribute is given
MagicMock(state) == [state |-> state]

\* the vm property, lines 52-56: self._vm once the property has been read
VmProperty ==
    IF _vm = None THEN Some(MagicMock(_RPCState(_rpc))) ELSE _vm

\* reading env.vm
vm ==
    /\ pc = "idle"
    /\ _vm' = VmProperty
    /\ UNCHANGED <<callVars, _rpc, sha3_trace, sstore_trace, nodes, uncached>>
    /\ UNCHANGED <<anchors, chain, snapshots, _contracts, _code_registry>>

\* a request sent with fetch_uncached, and the transport it was sent on
Uncached(rpc, method, params, answer) ==
    [rpc |-> rpc, method |-> method, params |-> params, answer |-> answer]

\* reading env.vm.state.timestamp: the vm property, then the getter of
\* lines 309-313 through _RPCProperty.__get__ (line 299) on state.rpc
TimestampGet ==
    /\ pc = "idle"
    /\ Len(uncached) < MaxFetches
    /\ LET rpc == Get(VmProperty).state.rpc
       IN  \E answer \in Answers(BlockTimestamps, {RPCError("internal error")}) :
             /\ uncached' = Append(uncached,
                              Uncached(rpc, "eth_getBlockByNumber",
                                       <<"pending", FALSE>>, answer))
             /\ result' = IF answer.ok
                          THEN Returned(int16(answer.val) + 1, 313)
                          ELSE Raised(answer.exc, 311)
    /\ _vm' = VmProperty
    /\ UNCHANGED <<accounts, last_receipt, pc, ctx, rpcLog>>
    /\ UNCHANGED <<_rpc, sha3_trace, sstore_trace, nodes>>
    /\ UNCHANGED <<anchors, chain, snapshots, _contracts, _code_registry>>

\* assigning env.vm.state.timestamp = value: the vm property, then the setter
\* of line 314 through _RPCProperty.__set__ (line 302) on state.rpc
TimestampSet(value) ==
    /\ pc = "idle"
    /\ Len(uncached) < MaxFetches
    /\ LET rpc == Get(VmProperty).state.rpc
       IN  \E answer \in Answers({"0x0"}, {RPCError("internal error")}) :
             /\ uncached' = Append(uncached,
                              Uncached(rpc, "evm_setTime", <<value - 1>>, answer))
             /\ result' = IF answer.ok
                          THEN Returned(None, 314)
                          ELSE Raised(answer.exc, 314)
    /\ _vm' = VmProperty
    /\ UNCHANGED <<accounts, last_receipt, pc, ctx, rpcLog>>
    /\ UNCHANGED <<_rpc, sha3_trace, sstore_trace, nodes>>
    /\ UNCHANGED <<anchors, chain, snapshots, _contracts, _code_registry>>

_reset_fork_stale(block_identifier) ==
    [_vm |-> _vm,
     _rpc |-> IF /\ block_identifier = "latest"
                 /\ _rpc.class = "EraTestNode"
                 /\ _rpc.inner_rpc # None
              THEN Get(_rpc.inner_rpc)
              ELSE _rpc]

\* _reset_fork, lines 58-66: self._vm and self._rpc when it returns
_reset_fork(block_identifier) ==
    [_vm |-> None,
     _rpc |-> IF /\ block_identifier = "latest"
                 /\ _rpc.class = "EraTestNode"
                 /\ _rpc.inner_rpc # None
              THEN Get(_rpc.inner_rpc)
              ELSE _rpc]

\* fork_rpc, lines 75-89.  The constructor of EraTestNode starts a node
\* process; when it raises, the assignment of line 89 does not happen.
fork_rpc(rpc, reset_traces, block_identifier) ==
    /\ pc = "idle"
    /\ nodes < MaxForks
    /\ LET reset == _reset_fork(block_identifier)
       IN  /\ _vm' = reset._vm
           /\ \E started \in BOOLEAN :
                IF started
                THEN /\ _rpc' = EraTestNode(rpc, block_identifier, nodes + 1)
                     /\ nodes' = nodes + 1
                ELSE /\ _rpc' = reset._rpc
                     /\ nodes' = nodes
    /\ IF reset_traces
       THEN sha3_trace' = {} /\ sstore_trace' = {}
       ELSE UNCHANGED <<sha3_trace, sstore_trace>>
    /\ UNCHANGED <<callVars, uncached>>
    /\ UNCHANGED <<anchors, chain, snapshots, _contracts, _code_registry>>

\* fork, lines 68-73.  With a url, Env.fork makes an EthereumRPC of it and
\* calls self.fork_rpc.
fork(url, reset_traces, block_identifier) ==
    IF url # None
    THEN fork_rpc(EthereumRPC(Get(url)), reset_traces, block_identifier)
    ELSE fork_rpc(_rpc, reset_traces, block_identifier)

NextFork ==
    \/ vm
    \/ TimestampGet
    \/ \E value \in TimestampValues : TimestampSet(value)
    \/ \E url \in ForkUrls, reset_traces \in BOOLEAN,
          block_identifier \in BlockIdentifiers :
            fork(url, reset_traces, block_identifier)
    \/ \E rpc \in ForkRpcs, reset_traces \in BOOLEAN,
          block_identifier \in BlockIdentifiers :
            fork_rpc(rpc, reset_traces, block_identifier)

SpecFork == Init /\ [][NextFork]_vars

----------------------------------------------------------------------------
(* anchor(), lines 99-103: a generator-based context manager.  The endpoint *)
(* keeps the snapshots: evm_snapshot saves the chain state and answers the  *)
(* snapshot's id, evm_revert puts the chain back to the state saved under   *)
(* an id and drops that snapshot and the later ones.                        *)

MaxNesting == 2
MaxChanges == 2
MaxRequests == 4

\* line 101, on entering the with block.  When the fetch raises, the block is
\* not entered.
AnchorEnter ==
    /\ pc = "idle"
    /\ Len(anchors) < MaxNesting
    /\ Len(rpcLog) < MaxRequests
    /\ \E answer \in Answers({Len(snapshots) + 1}, RpcFailures) :
         /\ rpcLog' = Append(rpcLog, Exchange("evm_snapshot", <<>>, answer))
         /\ IF answer.ok
            THEN /\ snapshots' = Append(snapshots, chain)
                 /\ anchors' = Append(anchors, answer.val)
            ELSE UNCHANGED <<snapshots, anchors>>
    /\ UNCHANGED <<accounts, last_receipt, pc, ctx, result, chain>>
    /\ UNCHANGED <<_rpc, _vm, sha3_trace, sstore_trace, nodes, uncached>>
    /\ UNCHANGED <<_contracts, _code_registry>>

\* the body of a with block (or code outside any) changes the chain: a
\* deployment or a modifying call is confirmed
ChainChange ==
    /\ pc = "idle"
    /\ chain < MaxChanges
    /\ chain' = chain + 1
    /\ UNCHANGED <<callVars, anchors, snapshots>>
    /\ UNCHANGED <<_rpc, _vm, sha3_trace, sstore_trace, nodes, uncached>>
    /\ UNCHANGED <<_contracts, _code_registry>>

\* line 103: the body of the innermost block has completed, the generator is
\* resumed after its yield.  When the fetch raises, the error leaves the with
\* statement.
AnchorExit ==
    /\ pc = "idle"
    /\ anchors # <<>>
    /\ Len(rpcLog) < MaxRequests
    /\ LET snapshot_id == anchors[Len(anchors)]
       IN  \E answer \in Answers({TRUE}, RpcFailures) :
             /\ rpcLog' = Append(rpcLog,
                            Exchange("evm_revert", <<snapshot_id>>, answer))
             /\ IF answer.ok
                THEN /\ chain' = snapshots[snapshot_id]
                     /\ snapshots' = SubSeq(snapshots, 1, snapshot_id - 1)
                ELSE UNCHANGED <<chain, snapshots>>
    /\ anchors' = SubSeq(anchors, 1, Len(anchors) - 1)
    /\ UNCHANGED <<accounts, last_receipt, pc, ctx, result>>
    /\ UNCHANGED <<_rpc, _vm, sha3_trace, sstore_trace, nodes, uncached>>
    /\ UNCHANGED <<_contracts, _code_registry>>

\* line 102: the body of the innermost block has raised.  contextmanager
\* throws the error into the generator at its yield; the yield is in no try
\* statement, so the generator ends there and line 103 is not run.
AnchorRaise ==
    /\ pc = "idle"
    /\ anchors # <<>>
    /\ anchors' = SubSeq(anchors, 1, Len(anchors) - 1)
    /\ UNCHANGED <<callVars, chain, snapshots>>
    /\ UNCHANGED <<_rpc, _vm, sha3_trace, sstore_trace, nodes, uncached>>
    /\ UNCHANGED <<_contracts, _code_registry>>

NextAnchor ==
    \/ AnchorEnter
    \/ ChainChange
    \/ AnchorExit
    \/ AnchorRaise

SpecAnchor == Init /\ [][NextAnchor]_vars

----------------------------------------------------------------------------
(* ZksyncDeployer.deploy (deployer.py): deploy_code, then at(address),      *)
(* which registers the contract with the env (register_contract).           *)

BoaError(trace) == [type |-> "BoaError", arg |-> trace]

\* Address(address).canonical_address: the 20 bytes of the address (the
\* addresses of the model fit in the last four)
canonical_address(address) == [i \in 1..16 |-> 0] \o to_bytes(address, 4)

\* _create_contract, lines 73-83: the contract object of this deployer at
\* address; making it registers nothing
_create_contract(address) == [class |-> "ZksyncContract", address |-> address]

\* d[key] = value on a dict kept as a set of <<key, value>> pairs
SetItem(d, key, value) == {item \in d : item[1] # key} \cup {<<key, value>>}

\* the code eth_getCode may answer for a deployed contract
DeployedCodes == {<<1, 0, 0, 1>>, <<1, 0, 0, 2>>}

\* isinstance(x, ZksyncComputation), for x a computation or an exception
IsComputation(x) == "msg" \in DOMAIN x

\* lines 38-53: deploy calls env.deploy_code with the compiled bytecode, for
\* the env's eoa, without gas and without dependencies
deploy(eoa, bytecode) ==
    deploy_code(eoa, None, bytecode, Iterable("tuple", <<>>))

\* the address deploy_code has returned to deploy
DeployedAddress == result.value[1]

\* lines 55-60: deploy_code (nothing else in the try has run) has raised.
\* Only _EstimateGasFailed is caught; any other error leaves deploy as it is.
DeployExcept ==
    /\ pc = "done"
    /\ ctx.op = "deploy_code"
    /\ result.kind = "raise"
    /\ pc' = "returned"
    /\ LET e == result.value
       IN  result' =
             IF e.type = "_EstimateGasFailed"
             THEN IF IsComputation(e.arg)
                  THEN LET c == _create_contract(ZERO_ADDRESS)
                           trace == [contract |-> c, computation |-> e.arg]
                       IN  Raised(BoaError(trace), 59)
                  ELSE Raised(e, 60)
             ELSE Raised(e, result.site)
    /\ UNCHANGED <<accounts, last_receipt, ctx, rpcLog, envVars>>

\* line 54, at lines 67-70, register_contract lines 92-93: deploy_code has
\* returned an address; the contract object is made and put in _contracts
at ==
    /\ pc = "done"
    /\ ctx.op = "deploy_code"
    /\ result.kind = "return"
    /\ LET address == DeployedAddress
           contract == _create_contract(address)
       IN  _contracts' = SetItem(_contracts, canonical_address(address), contract)
    /\ pc' = "eth_getCode"
    /\ UNCHANGED <<accounts, last_receipt, ctx, rpcLog, result>>
    /\ UNCHANGED <<_rpc, _vm, sha3_trace, sstore_trace, nodes, uncached>>
    /\ UNCHANGED <<anchors, chain, snapshots, _code_registry>>

\* register_contract lines 96-97, then line 71 and line 54.  An error of the
\* fetch is no _EstimateGasFailed, so it leaves deploy.
register_contract ==
    /\ pc = "eth_getCode"
    /\ LET address == DeployedAddress
           contract == _create_contract(address)
       IN  \E answer \in Answers(DeployedCodes, RpcFailures) :
             /\ rpcLog' = Append(rpcLog,
                            Exchange("eth_getCode", <<address, "latest">>, answer))
             /\ IF answer.ok
                THEN /\ _code_registry' = SetItem(_code_registry, answer.val, contract)
                     /\ result' = Returned(contract, 54)
                ELSE /\ UNCHANGED _code_registry
                     /\ result' = Raised(answer.exc, 96)
    /\ pc' = "returned"
    /\ UNCHANGED <<accounts, last_receipt, ctx>>
    /\ UNCHANGED <<_rpc, _vm, sha3_trace, sstore_trace, nodes, uncached>>
    /\ UNCHANGED <<anchors, chain, snapshots, _contracts>>

\* the caller of deploy has the contract, or the error, and goes on
DeployerResume ==
    /\ pc = "returned"
    /\ pc' = "idle"
    /\ ctx' = NoFrame
    /\ rpcLog' = <<>>
    /\ result' = NoResult
    /\ UNCHANGED <<accounts, last_receipt, envVars>>

NextDeployer ==
    \/ \E address \in Addresses : generate_address(address)
    \/ \E eoa \in Addresses, bytecode \in DeployBytecodes : deploy(eoa, bytecode)
    \/ FetchMulti
    \/ EstimateGas
    \/ DebugTraceCall
    \/ EthCall
    \/ SendRawTransaction
    \/ WaitForTxReceipt
    \/ DeployExcept
    \/ at
    \/ register_contract
    \/ DeployerResume

SpecDeployer == Init /\ [][NextDeployer]_vars

----------------------------------------------------------------------------
(* Properties *)

Last(seq) == seq[Len(seq)]
Sent(method) == {i \in DOMAIN rpcLog : rpcLog[i].method = method}
InDeploy == pc # "idle" /\ ctx.op = "deploy_code"
InExecute == pc # "idle" /\ ctx.op = "execute_code"

\* the hex string of a byte string, with the 0x prefix
HexOf(bytes) ==
    <<"0", "x">> \o
    [i \in 1..(2 * Len(bytes)) |->
        IF i % 2 = 1
        THEN HexChars[(bytes[(i + 1) \div 2] \div 16) + 1]
        ELSE HexChars[(bytes[i \div 2] % 16) + 1]]

\* C1: for a bytecode of 32*k bytes, 0 < k < 2^16, _hash_code returns 32
\* bytes: 0x01, 0x00, k as a big-endian 16-bit number, then bytes 4..31 of
\* the SHA-256 digest of the bytecode.
C1_HashLayout ==
    (pc = "done" /\ ctx.op = "_hash_code") =>
        LET bytecode == Get(ctx.bytecode)
            k == bytecode.len \div 32
        IN  (bytecode.len = 32 * k /\ 0 < k /\ k < 65536) =>
                /\ result.kind = "return"
                /\ Len(result.value) = 32
                /\ result.value[1] = 1
                /\ result.value[2] = 0
                /\ 256 * result.value[3] + result.value[4] = k
                /\ \A i \in 5..32 : result.value[i] = sha256(bytecode)[i]

C1_Witness ==
    /\ pc = "done"
    /\ ctx.op = "_hash_code"
    /\ Get(ctx.bytecode).len = 32 * 257
    /\ result.kind = "return"
    /\ result.value[3] = 1
    /\ result.value[4] = 1

\* C2: _hash_code fails for every bytecode whose length is not a positive
\* multiple of 32 or whose length / 32 is 2^16 or more; the empty bytecode is
\* among those it rejects.
C2_RejectsBadLength ==
    (pc = "done" /\ ctx.op = "_hash_code") =>
        LET len == Get(ctx.bytecode).len
        IN  ~(len > 0 /\ len % 32 = 0 /\ len \div 32 < 65536) =>
                result.kind = "raise"

\* C3: deploy_code with a sender outside the account registry fails with the
\* unknown-sender error before any request is sent, and the error lists the
\* known accounts when there are any.
C3_UnknownSender ==
    (InDeploy /\ Get(ctx.sender) \notin accounts) =>
        /\ pc = "done"
        /\ rpcLog = <<>>
        /\ result.kind = "raise"
        /\ result.value.type = "ValueError"
        /\ result.value.arg.account = Get(ctx.sender)
        /\ accounts # {} => result.value.arg.tip.known = accounts

C3_Witness ==
    /\ InDeploy
    /\ Get(ctx.sender) \notin accounts
    /\ accounts # {}
    /\ result.kind = "raise"

\* C4: an execute_code call with is_modifying false never invokes the
\* submission; it sends debug_traceCall and, after its failure only, eth_call,
\* and what it returns is the baseline computation.
C4_ReadOnlyNeverSubmits ==
    (InExecute /\ ~ctx.is_modifying) =>
        /\ pc # "_send_txn"
        /\ \A i \in DOMAIN rpcLog :
              \/ i = 1 /\ rpcLog[i].method = "debug_traceCall"
              \/ /\ i = 2
                 /\ rpcLog[i].method = "eth_call"
                 /\ ~rpcLog[1].answer.ok
        /\ result.kind = "return" =>
              /\ ctx.computation # None
              /\ result.value = Get(ctx.computation)
              /\ Last(rpcLog).answer.ok
              /\ Last(rpcLog).method = "eth_call" =>
                    HexOf(Get(result.value.output)) = Last(rpcLog).answer.val
              /\ Last(rpcLog).method = "debug_traceCall" =>
                    is_error(result.value) = (Last(rpcLog).answer.val.error # None)

C4_Witness ==
    /\ InExecute
    /\ ~ctx.is_modifying
    /\ result.kind = "return"
    /\ Len(rpcLog) = 2

\* C5: in a modifying execute_code call that got both the baseline
\* computation and a submission trace, differing is_error flags end the call
\* with the assertion's fault and no result; a result decoded from the
\* submission is returned only when the flags agree.
C5_MismatchIsFatal ==
    (InExecute /\ pc = "done" /\ Sent("_send_txn") # {} /\ Last(rpcLog).answer.ok) =>
        LET trace == Last(rpcLog).answer.val[2]
            baseline == Get(ctx.computation)
        IN  trace # None =>
              /\ is_error(baseline) # (Get(trace).raw_trace.error # None) =>
                    /\ result.kind = "raise"
                    /\ result.value.type = "AssertionError"
              /\ result.kind = "return" =>
                    is_error(baseline) = (Get(trace).raw_trace.error # None)

C5_Witness ==
    /\ InExecute
    /\ pc = "done"
    /\ Sent("_send_txn") # {}
    /\ Last(rpcLog).answer.ok
    /\ Last(rpcLog).answer.val[2] # None
    /\ is_error(Get(ctx.computation))
    /\ Get(Last(rpcLog).answer.val[2]).raw_trace.error = None
    /\ result.kind = "raise"

\* C6: in _compute a failed debug_traceCall (an RPCError or an HTTPError) is
\* followed by exactly one eth_call for the same message against "latest",
\* and its answer, when it succeeds, becomes a computation without error
\* whose output is the answered bytes and whose message is the queried one;
\* after a debug_traceCall that succeeded no eth_call is sent.
C6_TraceThenCall ==
    \A i \in DOMAIN rpcLog :
        /\ rpcLog[i].method = "debug_traceCall" =>
              IF rpcLog[i].answer.ok
              THEN Sent("eth_call") = {} /\ pc # "eth_call"
              ELSE /\ rpcLog[i].answer.exc.type \in {"RPCError", "HTTPError"}
                   /\ IF i = Len(rpcLog)
                      THEN pc = "eth_call"
                      ELSE /\ rpcLog[i + 1].method = "eth_call"
                           /\ rpcLog[i + 1].arg = rpcLog[i].arg
                           /\ rpcLog[i + 1].arg = <<Get(ctx.args), "latest">>
                           /\ Cardinality(Sent("eth_call")) = 1
        /\ (rpcLog[i].method = "eth_call" /\ rpcLog[i].answer.ok) =>
              /\ ctx.computation # None
              /\ ~is_error(Get(ctx.computation))
              /\ Get(ctx.computation).output # None
              /\ HexOf(Get(Get(ctx.computation).output)) = rpcLog[i].answer.val
              /\ Get(ctx.computation).msg = rpcLog[i].arg[1]

C6_Witness ==
    /\ Sent("eth_call") # {}
    /\ Last(rpcLog).method = "eth_call"
    /\ Last(rpcLog).answer.ok
    /\ Last(rpcLog).answer.val = <<"0", "x", "a", "b", "0", "0">>
    /\ Get(ctx.computation).output = Some(<<171, 0>>)

\* the exchanges of a deployment in which every step succeeded
DeploySucceeded ==
    /\ InDeploy
    /\ Len(rpcLog) = 4
    /\ \A i \in 1..4 : rpcLog[i].answer.ok
    /\ rpcLog[1].method = "fetch_multi"
    /\ rpcLog[2].method = "eth_estimateGas"
    /\ rpcLog[3].method = "eth_sendRawTransaction"
    /\ rpcLog[4].method = "wait_for_tx_receipt"

C8_ReceiptTimeout ==
    [][(pc = "wait_for_tx_receipt" /\ ~Last(rpcLog').answer.ok) =>
          /\ pc' = "done"
          /\ result'.kind = "raise"
          /\ result'.value = ReceiptTimeout
          /\ last_receipt' = last_receipt
          /\ Cardinality({i \in DOMAIN rpcLog' :
                             rpcLog'[i].method = "eth_sendRawTransaction"}) = 1]_vars

C8_Witness ==
    /\ InDeploy
    /\ pc = "done"
    /\ rpcLog # <<>>
    /\ Last(rpcLog).method = "wait_for_tx_receipt"
    /\ ~Last(rpcLog).answer.ok
    /\ last_receipt # None

\* C9: when eth_estimateGas is rejected with an RPC error, _estimate_gas runs
\* _compute on the estimate message; a computation with an error has that
\* error raised, one without has _EstimateGasFailed carrying the RPC error
\* raised; no estimate is returned and nothing is signed or submitted.
C9_EstimateFallback ==
    (InDeploy /\ Len(rpcLog) >= 2 /\ ~rpcLog[2].answer.ok
              /\ rpcLog[2].answer.exc.type = "RPCError") =>
        /\ Sent("eth_sendRawTransaction") = {}
        /\ ctx.estimated_gas = None
        /\ ctx.raw_tx = None
        /\ result.kind # "return"
        /\ Len(rpcLog) = 2 => pc = "debug_traceCall"
        /\ Len(rpcLog) > 2 =>
              /\ rpcLog[3].method = "debug_traceCall"
              /\ rpcLog[3].arg[1] = rpcLog[2].arg
        /\ (pc = "done" /\ ctx.computation # None) =>
              /\ result.kind = "raise"
              /\ IF Get(ctx.computation).error # None
                 THEN /\ result.value.type = "VMError"
                      /\ result.value = Get(Get(ctx.computation).error)
                 ELSE /\ result.value.type = "_EstimateGasFailed"
                      /\ result.value.arg = rpcLog[2].answer.exc

C9_Witness ==
    /\ InDeploy
    /\ pc = "done"
    /\ Len(rpcLog) >= 3
    /\ ~rpcLog[2].answer.ok
    /\ ctx.computation # None
    /\ Get(ctx.computation).error # None
    /\ result.kind = "raise"

\* C10: whatever iterable is given as dependency_bytecodes, the assembled
\* transaction has as many dependency hashes as dependency bytecodes, the
\* i-th hash being _hash_code of the i-th bytecode.
C10_DependencyHashes ==
    (InDeploy /\ ctx.tx # None) =>
        LET tx == Get(ctx.tx)
        IN  /\ tx.dependency_bytecodes = Get(ctx.dependency_bytecodes).items
            /\ Len(tx.dependency_bytecode_hashes) = Len(tx.dependency_bytecodes)
            /\ \A i \in 1..Len(tx.dependency_bytecodes) :
                  tx.dependency_bytecode_hashes[i]
                      = _hash_code(tx.dependency_bytecodes[i]).val

\* C11: a modifying call whose _send_txn fails with the gas-estimation failure
\* does not raise: when the baseline computation has no error, the call returns
\* an error computation carrying VMError("Estimate gas failed") whose message
\* is the call's own message; when the baseline already has an error, the
\* baseline itself is returned.
C11_EstimateFailureIsAResult ==
    (/\ InExecute
     /\ pc = "done"
     /\ Last(rpcLog).method = "_send_txn"
     /\ ~Last(rpcLog).answer.ok
     /\ Last(rpcLog).answer.exc.type = "_EstimateGasFailed")
    => /\ result.kind = "return"
       /\ IF ~is_error(Get(ctx.computation))
          THEN /\ is_error(result.value)
               /\ result.value.error = Some(VMError("Estimate gas failed"))
               /\ result.value.msg = Get(ctx.args)
               /\ result.value.msg = ZksyncMessage(Get(ctx.sender), Get(ctx.to),
                                                   OrZero(ctx.gas), 0,
                                                   Get(ctx.data))
          ELSE result.value = Get(ctx.computation)

C11_Witness ==
    /\ InExecute
    /\ pc = "done"
    /\ Last(rpcLog).method = "_send_txn"
    /\ ~Last(rpcLog).answer.ok
    /\ Last(rpcLog).answer.exc.type = "_EstimateGasFailed"
    /\ ~is_error(Get(ctx.computation))
    /\ result.kind = "return"
    /\ result.value.error = Some(VMError("Estimate gas failed"))

\* the methods of the exchanges of the current call, in the order made
Methods == [i \in 1..Len(rpcLog) |-> rpcLog[i].method]

IsPrefix(s, t) == Len(s) <= Len(t) /\ \A i \in 1..Len(s) : s[i] = t[i]

\* C12: in a run of deploy_code nothing is sent for an unknown sender; the
\* exchanges are, in this order and each at most once, the batched quote,
\* eth_estimateGas, eth_sendRawTransaction and the receipt wait (the trace and
\* call of a rejected estimate never lead to a submission); each comes only
\* after the one before it succeeded; what is sent is the encoding of the
\* transaction signed with the estimate obtained; and the receipt is awaited
\* for the hash that eth_sendRawTransaction returned.
C12_DeployOrder ==
    InDeploy =>
      /\ rpcLog # <<>> => IsKnownAccount(Get(ctx.sender))
      /\ \/ IsPrefix(Methods, <<"fetch_multi", "eth_estimateGas",
                                "eth_sendRawTransaction", "wait_for_tx_receipt">>)
         \/ /\ IsPrefix(Methods, <<"fetch_multi", "eth_estimateGas",
                                   "debug_traceCall", "eth_call">>)
            /\ ~rpcLog[2].answer.ok
      /\ \A i \in 2..Len(rpcLog) :
            rpcLog[i].method \in {"eth_estimateGas", "eth_sendRawTransaction",
                                  "wait_for_tx_receipt"}
            => rpcLog[i - 1].answer.ok
      /\ (pc \in {"eth_sendRawTransaction", "wait_for_tx_receipt"}
          \/ Sent("eth_sendRawTransaction") # {})
         => /\ Len(rpcLog) >= 2
            /\ rpcLog[1].answer.ok
            /\ rpcLog[2].answer.ok
            /\ ctx.estimated_gas = Some(int16(rpcLog[2].answer.val))
            /\ ctx.raw_tx =
                 Some(rlp_encode(Get(ctx.tx),
                                 sign_typed_data(Get(ctx.tx), Get(ctx.sender),
                                                 Get(ctx.estimated_gas)),
                                 Get(ctx.estimated_gas)))
      /\ \A i \in Sent("eth_sendRawTransaction") :
            /\ i = 3
            /\ rpcLog[i].arg = Get(ctx.raw_tx)
      /\ \A i \in Sent("wait_for_tx_receipt") :
            /\ i = 4
            /\ rpcLog[i].arg = rpcLog[3].answer.val

C12_Witness ==
    /\ InDeploy
    /\ pc = "done"
    /\ Methods = <<"fetch_multi", "eth_estimateGas", "eth_sendRawTransaction",
                   "wait_for_tx_receipt">>
    /\ rpcLog[4].arg = rpcLog[3].answer.val
    /\ rpcLog[4].answer.ok

\* the trace/call path of the current call has given a computation: the last
\* of its exchanges before position i is a debug_traceCall or an eth_call
\* that was answered
BaselineBefore(i) ==
    /\ i > 1
    /\ rpcLog[i - 1].method \in {"debug_traceCall", "eth_call"}
    /\ rpcLog[i - 1].answer.ok
    /\ rpcLog[1].method = "debug_traceCall"
    /\ rpcLog[i - 1].method = "eth_call" => i = 3 /\ ~rpcLog[1].answer.ok

\* C13: in a call of execute_code, modifying or not, the first exchange is
\* debug_traceCall; _send_txn is attempted only after the trace/call path has
\* given the baseline computation; and when the path raises, the call ends
\* with that error and nothing was submitted.
C13_BaselineFirst ==
    InExecute =>
      /\ rpcLog # <<>> => rpcLog[1].method = "debug_traceCall"
      /\ pc = "_send_txn" => ctx.computation # None /\ BaselineBefore(Len(rpcLog) + 1)
      /\ \A i \in Sent("_send_txn") : ctx.computation # None /\ BaselineBefore(i)
      /\ (pc = "done" /\ ctx.computation = None)
         => /\ result.kind = "raise"
            /\ Sent("_send_txn") = {}
      /\ (pc = "done" /\ ctx.computation # None /\ ~ctx.is_modifying)
         => BaselineBefore(Len(rpcLog) + 1)

C13_Witness ==
    /\ InExecute
    /\ Sent("_send_txn") = {3}
    /\ rpcLog[2].method = "eth_call"

\* the current call is a modifying call whose _send_txn has returned
SubmissionReturned ==
    /\ InExecute
    /\ pc = "done"
    /\ Last(rpcLog).method = "_send_txn"
    /\ Last(rpcLog).answer.ok

\* C14: when _send_txn returns a trace whose error status is the baseline's,
\* execute_code returns the computation decoded from that trace's raw debug
\* trace (its output, its error and its message), not the baseline; when
\* _send_txn returns no trace, the baseline is returned whatever its error
\* status.
C14_SubmissionTracePreferred ==
    SubmissionReturned =>
      LET trace == Last(rpcLog).answer.val[2]
          computation == Get(ctx.computation)
      IN  IF trace = None
          THEN result.kind = "return" /\ result.value = computation
          ELSE LET raw_trace == Get(trace).raw_trace
               IN  (raw_trace.error # None) = is_error(computation)
                   => /\ result.kind = "return"
                      /\ result.value.msg = raw_trace.msg
                      /\ HexOf(Get(result.value.output)) = raw_trace.output
                      /\ result.value.error =
                            (IF raw_trace.error = None THEN None
                             ELSE Some(VMError(Get(raw_trace.error))))
                      /\ result.value # computation

C14_Witness ==
    /\ SubmissionReturned
    /\ Last(rpcLog).answer.val[2] # None
    /\ result.kind = "return"
    /\ ~is_error(result.value)
    /\ Get(result.value.output) # Get(Get(ctx.computation).output)

C14_WitnessNoTrace ==
    /\ SubmissionReturned
    /\ Last(rpcLog).answer.val[2] = None
    /\ is_error(Get(ctx.computation))
    /\ result.kind = "return"

\* C15: when debug_traceCall has failed and eth_call fails too, the call ends
\* by raising the very error eth_call gave: execute_code gives no result and
\* submits nothing, and a deploy_code that came to the call through a rejected
\* estimate raises that error, not _EstimateGasFailed nor a VMError, and sends
\* nothing.
C15_CallErrorPropagates ==
    (/\ pc # "idle"
     /\ rpcLog # <<>>
     /\ Last(rpcLog).method = "eth_call"
     /\ ~Last(rpcLog).answer.ok)
    => /\ pc = "done"
       /\ ~rpcLog[Len(rpcLog) - 1].answer.ok
       /\ rpcLog[Len(rpcLog) - 1].method = "debug_traceCall"
       /\ result.kind = "raise"
       /\ result.value.type = Last(rpcLog).answer.exc.type
       /\ result.value = Last(rpcLog).answer.exc
       /\ ctx.computation = None
       /\ Sent("_send_txn") = {}
       /\ Sent("eth_sendRawTransaction") = {}

C15_Witness ==
    /\ InDeploy
    /\ pc = "done"
    /\ rpcLog # <<>>
    /\ Last(rpcLog).method = "eth_call"
    /\ ~Last(rpcLog).answer.ok
    /\ ctx.estimate_error # None
    /\ result.kind = "raise"
    /\ result.value = Last(rpcLog).answer.exc
    /\ result.value # Get(ctx.estimate_error)

C15_WitnessExecute ==
    /\ InExecute
    /\ ctx.is_modifying
    /\ pc = "done"
    /\ Last(rpcLog).method = "eth_call"
    /\ ~Last(rpcLog).answer.ok
    /\ result.kind = "raise"

\* the step made an exchange that confirmed a submission: the receipt wait of
\* deploy_code was answered, or the _send_txn of execute_code returned
Confirms ==
    /\ Len(rpcLog') > Len(rpcLog)
    /\ Last(rpcLog').method \in {"wait_for_tx_receipt", "_send_txn"}
    /\ Last(rpcLog').answer.ok

ConfirmedReceipt ==
    IF Last(rpcLog').method = "_send_txn"
    THEN Last(rpcLog').answer.val[1]
    ELSE Last(rpcLog').answer.val

\* C16: last_receipt starts as None; a step that confirms a submission sets
\* it to that submission's receipt, also when the call then ends in the
\* consistency fault; every other step (a read-only call, an unknown sender,
\* a failed estimate, a rejected submission, a receipt timeout) leaves it as
\* it was.
C16_LastReceipt ==
    /\ last_receipt = None
    /\ [][IF Confirms
          THEN last_receipt' = Some(ConfirmedReceipt)
          ELSE last_receipt' = last_receipt]_vars

C16_Witness ==
    /\ InExecute
    /\ pc = "done"
    /\ result.kind = "raise"
    /\ result.value.type = "AssertionError"
    /\ last_receipt = Some(Last(rpcLog).answer.val[1])

\* C17: at the start and after every step of vm reads, timestamp reads and
\* writes, and forks, a cached vm has a state bound to the transport that is
\* then self._rpc, and every request made through a vm's state went to the
\* transport that was self._rpc when it was made.
C17_VmFollowsTransport ==
    /\ _vm # None => Get(_vm).state.rpc = _rpc
    /\ [][/\ _vm' # None => Get(_vm').state.rpc = _rpc'
          /\ Len(uncached') > Len(uncached)
             => /\ Last(uncached').rpc = _rpc
                /\ _rpc' = _rpc]_vars

C17_Witness ==
    /\ nodes >= 2
    /\ _vm # None
    /\ Get(_vm).state.rpc = _rpc
    /\ _rpc.class = "EraTestNode"
    /\ Len(uncached) = 2
    /\ uncached[1].rpc # uncached[2].rpc
    /\ uncached[2].rpc = _rpc

\* C18: every step that leaves an anchor() block, whether its body completed
\* or raised, sends exactly one evm_revert, with the snapshot id that the
\* block's evm_snapshot returned.
C18_AnchorReverts ==
    [][Len(anchors') < Len(anchors)
       => /\ Len(rpcLog') = Len(rpcLog) + 1
          /\ Last(rpcLog').method = "evm_revert"
          /\ Last(rpcLog').arg = <<Last(anchors)>>]_vars

\* the registry entry of the contract at address
ContractItem(address) == <<canonical_address(address), _create_contract(address)>>

\* C19, as stated: when deploy ends by raising, at whatever stage, nothing has
\* been registered: the contract of an address that deploy_code returned in
\* this call is not in _contracts.
C19_FailedDeployRegistersNothing ==
    (pc = "returned" /\ result.kind = "raise")
    => \A i \in Sent("wait_for_tx_receipt") :
         rpcLog[i].answer.ok
         => ContractItem(Get(rpcLog[i].answer.val.contractAddress)) \notin _contracts

\* C19, amended: _contracts changes only in the step after deploy_code has
\* returned an address, by the contract at exactly that address;
\* _code_registry changes only afterwards, by that same contract under the
\* code eth_getCode answered; when deploy_code raises, deploy raises too (a
\* BoaError when the error is an _EstimateGasFailed carrying a computation,
\* else the very error) and both registries stay as they were; when
\* deploy_code has returned and eth_getCode then fails, deploy raises that
\* error with the contract already in _contracts and _code_registry as it was.
C19_RegistersAfterDeployCode ==
    [][/\ _contracts' # _contracts
          => /\ pc = "done" /\ result.kind = "return"
             /\ Last(rpcLog).method = "wait_for_tx_receipt"
             /\ Last(rpcLog).answer.ok
             /\ Last(rpcLog).answer.val.contractAddress = Some(DeployedAddress)
             /\ _contracts' = SetItem(_contracts,
                                      canonical_address(DeployedAddress),
                                      _create_contract(DeployedAddress))
       /\ _code_registry' # _code_registry
          => /\ pc = "eth_getCode"
             /\ ContractItem(DeployedAddress) \in _contracts
             /\ Last(rpcLog').method = "eth_getCode"
             /\ Last(rpcLog').arg = <<DeployedAddress, "latest">>
             /\ Last(rpcLog').answer.ok
             /\ _code_registry' = SetItem(_code_registry, Last(rpcLog').answer.val,
                                          _create_contract(DeployedAddress))
             /\ result' = Returned(_create_contract(DeployedAddress), 54)
       /\ (pc = "done" /\ result.kind = "raise" /\ pc' # "done")
          => /\ pc' = "returned"
             /\ UNCHANGED <<_contracts, _code_registry>>
             /\ result'.kind = "raise"
             /\ IF /\ result.value.type = "_EstimateGasFailed"
                   /\ IsComputation(result.value.arg)
                THEN result'.value.type = "BoaError"
                ELSE /\ result'.value.type = result.value.type
                     /\ result'.value = result.value
       /\ (pc = "eth_getCode" /\ ~Last(rpcLog').answer.ok)
          => /\ pc' = "returned"
             /\ result'.kind = "raise"
             /\ result'.value = Last(rpcLog').answer.exc
             /\ ContractItem(DeployedAddress) \in _contracts'
             /\ UNCHANGED <<_contracts, _code_registry>>]_vars

C19_Witness ==
    /\ pc = "returned"
    /\ result.kind = "raise"
    /\ result.value.type = "_EstimateGasFailed"
    /\ Sent("wait_for_tx_receipt") = {}
    /\ _contracts # {}
    /\ _code_registry # {}

====
